---- MODULE Spec2Model ----
(***************************************************************************)
(* Model of the v2 search package: the option encoders (addQuery), the     *)
(* recent-search response decoder (Build) and the stream-rule validators.  *)
(*                                                                         *)
(* Strings whose content matters are sequences of one-character strings,   *)
(* so joining, splitting and percent-escaping are computed, not assumed.   *)
(* Query keys are atomic strings; the raw query of a request is the        *)
(* sequence of its "key=value" pairs in wire order, values in escaped form.*)
(***************************************************************************)
EXTENDS Integers, Sequences, FiniteSets, TLC

VARIABLES
    otype,   \* which options struct is in use: "recent", "search", "user"
    opts,    \* the options value (fields a struct lacks stay zero)
    req0,    \* the request as it was handed to the first addQuery
    req1,    \* the request as the first addQuery left it
    req,     \* the request
    pc,      \* "fresh": addQuery not applied; "once"; "twice"
    input,   \* Build's arguments: statusCode, headers, body
    out,     \* Build's return values: result, err
    vkind,   \* which batch is validated: "rules" or "ids"
    rules,   \* a tweetSearchStreamRules batch
    ids,     \* a tweetSearchStreamRuleIDs batch
    vout     \* what validate returned, and how many elements it examined

vars == <<otype, opts, req0, req1, req, pc, input, out, vkind, rules, ids, vout>>

qvars == <<otype, opts, req0, req1, req, pc>>
bvars == <<input, out>>
vvars == <<vkind, rules, ids, vout>>

(***************************************************************************)
(* Bounds of the model.                                                    *)
(***************************************************************************)
MaxList == 2      \* longest collection-valued option field
MaxSet == 2       \* most option fields that differ from their zero value
MaxMembers == 2   \* most members of a JSON object in a response body
MaxBatch == 3     \* longest batch of rules or rule IDs

(***************************************************************************)
(* Characters and strings.                                                 *)
(***************************************************************************)
Comma == <<",">>

Digits == <<"0", "1", "2", "3", "4", "5", "6", "7", "8", "9">>

RECURSIVE Itoa(_)
\* strconv.Itoa
Itoa(n) ==
    IF n < 0 THEN <<"-">> \o Itoa(-n)
    ELSE IF n < 10 THEN <<Digits[n + 1]>>
    ELSE Itoa(n \div 10) \o <<Digits[(n % 10) + 1]>>

RECURSIVE Join(_, _)
\* strings.Join
Join(elems, sep) ==
    IF Len(elems) = 0 THEN <<>>
    ELSE IF Len(elems) = 1 THEN elems[1]
    ELSE elems[1] \o sep \o Join(Tail(elems), sep)

\* expansionStringArray, mediaFieldStringArray, ...: each element converted
\* to its underlying string, position by position
StringArray(list) == [i \in 1..Len(list) |-> list[i]]

Pad2(n) == <<Digits[(n \div 10) + 1], Digits[(n % 10) + 1]>>

\* time.Time values are seconds after the zero instant (0001-01-01T00:00:00Z),
\* all within its first hour and in UTC
IsZero(t) == t = 0

\* Time.Format(time.RFC3339)
FormatRFC3339(t) ==
    <<"0", "0", "0", "1", "-", "0", "1", "-", "0", "1", "T", "0", "0", ":">>
        \o Pad2(t \div 60) \o <<":">> \o Pad2(t % 60) \o <<"Z">>

(***************************************************************************)
(* net/url: escaping, ParseQuery, Values.Add, Values.Encode.               *)
(***************************************************************************)
\* the characters url.QueryEscape replaces, with their two hex digits
EscTable ==
    (","  :> <<"2", "C">>) @@ (":" :> <<"3", "A">>) @@ ("%" :> <<"2", "5">>)
        @@ ("+" :> <<"2", "B">>) @@ ("&" :> <<"2", "6">>) @@ ("=" :> <<"3", "D">>)

HexDigits == {"0", "1", "2", "3", "4", "5", "6", "7", "8", "9",
              "A", "B", "C", "D", "E", "F", "a", "b", "c", "d", "e", "f"}

RECURSIVE QueryEscape(_)
QueryEscape(s) ==
    IF s = <<>> THEN <<>>
    ELSE LET c == Head(s) IN
         (IF c = " " THEN <<"+">>
          ELSE IF c \in DOMAIN EscTable THEN <<"%">> \o EscTable[c]
          ELSE <<c>>) \o QueryEscape(Tail(s))

RECURSIVE QueryUnescape(_)
\* url.QueryUnescape: [ok, val]; a "%" not followed by two hex digits fails
QueryUnescape(s) ==
    IF s = <<>> THEN [ok |-> TRUE, val |-> <<>>]
    ELSE LET c == Head(s) IN
         IF c = "%" THEN
             IF Len(s) < 3 \/ s[2] \notin HexDigits \/ s[3] \notin HexDigits
             THEN [ok |-> FALSE, val |-> <<>>]
             ELSE LET rest == QueryUnescape(SubSeq(s, 4, Len(s)))
                      ch == CHOOSE x \in DOMAIN EscTable : EscTable[x] = <<s[2], s[3]>>
                  IN [ok |-> rest.ok, val |-> <<ch>> \o rest.val]
         ELSE LET rest == QueryUnescape(Tail(s))
              IN [ok |-> rest.ok,
                  val |-> <<IF c = "+" THEN " " ELSE c>> \o rest.val]

\* url.Values with no key
NoValues == <<>>

\* url.Values.Add: append the value to the key's list
Add(q, k, v) ==
    IF k \in DOMAIN q THEN [q EXCEPT ![k] = Append(@, v)]
    ELSE q @@ (k :> <<v>>)

RECURSIVE ParseQuery(_)
\* url.ParseQuery as URL.Query uses it: pairs in wire order, a pair whose
\* value does not unescape is skipped and the error dropped
ParseQuery(raw) ==
    IF raw = <<>> THEN NoValues
    ELSE LET front == ParseQuery(SubSeq(raw, 1, Len(raw) - 1))
             p == raw[Len(raw)]
             u == QueryUnescape(p.v)
         IN IF u.ok THEN Add(front, p.k, u.val) ELSE front

\* every key of the model, in the byte order Values.Encode sorts keys into
KeyOrder ==
    <<"end_time", "expansions", "max_results", "media.fields", "next_token",
      "place.fields", "poll.fields", "query", "since_id", "sort_order",
      "start_time", "tweet.fields", "until_id", "user.fields", "zz">>

RECURSIVE EncodeFrom(_, _)
EncodeFrom(q, i) ==
    IF i > Len(KeyOrder) THEN <<>>
    ELSE LET k == KeyOrder[i] IN
         (IF k \in DOMAIN q
          THEN [j \in 1..Len(q[k]) |-> [k |-> k, v |-> QueryEscape(q[k][j])]]
          ELSE <<>>) \o EncodeFrom(q, i + 1)

\* url.Values.Encode: keys sorted, each key's values in list order, escaped
Encode(q) == EncodeFrom(q, 1)

(***************************************************************************)
(* The option structs and addQuery.                                        *)
(***************************************************************************)
Fields ==
    {"Expansions", "MediaFields", "PlaceFields", "PollFields", "TweetFields",
     "UserFields", "StartTime", "EndTime", "SortOrder", "MaxResults",
     "NextToken", "SinceID", "UntilID"}

\* the fields UserLookupOpts has
UserLookupFieldNames == {"Expansions", "TweetFields", "UserFields"}

\* len(list) > 0
ListGiven(list) == Len(list) > 0

\* !t.IsZero()
TimeGiven(t) == ~IsZero(t)

\* the guard with negative counts let through
MaxResultsGivenNonZero(n) == n # 0

\* t.MaxResults > 0
MaxResultsGiven(n) == n > 0

\* len(s) > 0
StringGiven(s) == Len(s) > 0

\* the join with the names put in alphabetical order first
JoinedListSorted(list) ==
    Join(SelectSeq(StringArray(list), LAMBDA e : e = <<"a", "t">>)
            \o SelectSeq(StringArray(list), LAMBDA e : e # <<"a", "t">>), Comma)

\* strings.Join(xStringArray(list), ",")
JoinedList(list) == Join(StringArray(list), Comma)

\* one guarded q.Add statement: the guard's outcome, the key, the value
Entry(given, key, value) == [given |-> given, key |-> key, value |-> value]

ListEntry(list, key) ==
    Entry(ListGiven(list), key, IF ListGiven(list) THEN JoinedList(list) ELSE <<>>)

TimeEntry(t, key) ==
    Entry(TimeGiven(t), key, IF TimeGiven(t) THEN FormatRFC3339(t) ELSE <<>>)

MaxResultsEntry(n) ==
    Entry(MaxResultsGiven(n), "max_results", IF MaxResultsGiven(n) THEN Itoa(n) ELSE <<>>)

StringEntry(s, key) == Entry(StringGiven(s), key, s)

\* TweetRecentSearchOpts.addQuery, its guarded statements in source order
RecentFields(t) ==
    << ListEntry(t.Expansions, "expansions"),
       ListEntry(t.MediaFields, "media.fields"),
       ListEntry(t.PlaceFields, "place.fields"),
       ListEntry(t.PollFields, "poll.fields"),
       ListEntry(t.TweetFields, "tweet.fields"),
       ListEntry(t.UserFields, "user.fields"),
       TimeEntry(t.StartTime, "start_time"),
       TimeEntry(t.EndTime, "end_time"),
       MaxResultsEntry(t.MaxResults),
       StringEntry(t.NextToken, "next_token"),
       StringEntry(t.SinceID, "since_id"),
       StringEntry(t.UntilID, "until_id"),
       StringEntry(t.SortOrder, "sort_order") >>

\* TweetSearchOpts.addQuery, its guarded statements in source order
SearchFields(t) ==
    << ListEntry(t.Expansions, "expansions"),
       ListEntry(t.MediaFields, "media.fields"),
       ListEntry(t.PlaceFields, "place.fields"),
       ListEntry(t.PollFields, "poll.fields"),
       ListEntry(t.TweetFields, "tweet.fields"),
       ListEntry(t.UserFields, "user.fields"),
       TimeEntry(t.StartTime, "start_time"),
       TimeEntry(t.EndTime, "end_time"),
       MaxResultsEntry(t.MaxResults),
       StringEntry(t.NextToken, "next_token"),
       StringEntry(t.SinceID, "since_id"),
       StringEntry(t.UntilID, "until_id"),
       StringEntry(t.SortOrder, "sort_order") >>

\* UserLookupOpts.addQuery, its guarded statements in source order
UserLookupFields(u) ==
    << ListEntry(u.Expansions, "expansions"),
       ListEntry(u.TweetFields, "tweet.fields"),
       ListEntry(u.UserFields, "user.fields") >>

\* the query built from nothing instead of from the request
ReqQueryFresh(r) == NoValues

\* q := req.URL.Query()
ReqQuery(r) == ParseQuery(r.RawQuery)

\* url.Values.Set in place of Add: the value replaces the key's list
SetValue(q, k, v) ==
    IF k \in DOMAIN q THEN [q EXCEPT ![k] = <<v>>] ELSE q @@ (k :> <<v>>)

RECURSIVE ApplyEntriesSet(_, _)
ApplyEntriesSet(q, entries) ==
    IF entries = <<>> THEN q
    ELSE LET e == Head(entries) IN
         ApplyEntriesSet(IF e.given THEN SetValue(q, e.key, e.value) ELSE q, Tail(entries))

RECURSIVE ApplyEntries(_, _)
\* the guarded statements run in order: if given { q.Add(key, value) }
ApplyEntries(q, entries) ==
    IF entries = <<>> THEN q
    ELSE LET e == Head(entries) IN
         ApplyEntries(IF e.given THEN Add(q, e.key, e.value) ELSE q, Tail(entries))

\* if len(q) > 0 { req.URL.RawQuery = q.Encode() }
StoreQuery(r, q) ==
    IF DOMAIN q # {} THEN [r EXCEPT !.RawQuery = Encode(q)] ELSE r

RecentAddQuery(t, r) == StoreQuery(r, ApplyEntries(ReqQuery(r), RecentFields(t)))

SearchAddQuery(t, r) == StoreQuery(r, ApplyEntries(ReqQuery(r), SearchFields(t)))

UserLookupAddQuery(u, r) == StoreQuery(r, ApplyEntries(ReqQuery(r), UserLookupFields(u)))

(***************************************************************************)
(* The option values and requests the encoder is run on.                   *)
(***************************************************************************)
ElemId == <<"i", "d">>
ElemAt == <<"a", "t">>

\* every list over the two element names, up to MaxList long
Lists == UNION {[1..n -> {ElemId, ElemAt}] : n \in 0..MaxList}

ZeroOpts ==
    [Expansions |-> <<>>, MediaFields |-> <<>>, PlaceFields |-> <<>>,
     PollFields |-> <<>>, TweetFields |-> <<>>, UserFields |-> <<>>,
     StartTime |-> 0, EndTime |-> 0, SortOrder |-> <<>>, MaxResults |-> 0,
     NextToken |-> <<>>, SinceID |-> <<>>, UntilID |-> <<>>]

\* the options that differ from ZeroOpts in field f only
Variants(f) ==
    CASE f = "Expansions"  -> {[ZeroOpts EXCEPT !.Expansions = l] : l \in Lists \ {<<>>}}
      [] f = "MediaFields" -> {[ZeroOpts EXCEPT !.MediaFields = <<ElemId, ElemAt>>]}
      [] f = "PlaceFields" -> {[ZeroOpts EXCEPT !.PlaceFields = <<ElemId>>]}
      [] f = "PollFields"  -> {[ZeroOpts EXCEPT !.PollFields = <<ElemId, ElemId>>]}
      [] f = "TweetFields" -> {[ZeroOpts EXCEPT !.TweetFields = <<ElemId, ElemAt>>]}
      [] f = "UserFields"  -> {[ZeroOpts EXCEPT !.UserFields = <<ElemAt>>]}
      [] f = "StartTime"   -> {[ZeroOpts EXCEPT !.StartTime = 75]}
      [] f = "EndTime"     -> {[ZeroOpts EXCEPT !.EndTime = 3599]}
      [] f = "SortOrder"   -> {[ZeroOpts EXCEPT !.SortOrder = <<"r", "e", "c", "e", "n", "c", "y">>],
                               [ZeroOpts EXCEPT !.SortOrder = <<"a", " ", "b">>]}
      [] f = "MaxResults"  -> {[ZeroOpts EXCEPT !.MaxResults = 50],
                               [ZeroOpts EXCEPT !.MaxResults = -1]}
      [] f = "NextToken"   -> {[ZeroOpts EXCEPT !.NextToken = <<"n", "1">>]}
      [] f = "SinceID"     -> {[ZeroOpts EXCEPT !.SinceID = <<"1", "0", "0">>]}
      [] f = "UntilID"     -> {[ZeroOpts EXCEPT !.UntilID = <<"2", "0", "0">>]}

\* o with field f taken from v
WithField(o, f, v) == [g \in DOMAIN o |-> IF g = f THEN v[g] ELSE o[g]]

RECURSIVE OptsOver(_)
\* the options whose fields in S differ from zero and whose other fields are zero
OptsOver(S) ==
    IF S = {} THEN {ZeroOpts}
    ELSE LET f == CHOOSE x \in S : TRUE IN
         {WithField(o, f, v) : o \in OptsOver(S \ {f}), v \in Variants(f)}

OptsOf(names) ==
    UNION {OptsOver(S) : S \in {T \in SUBSET names : Cardinality(T) <= MaxSet}}

RawQueries ==
    { <<>>,
      <<[k |-> "query", v |-> <<"g", "o">>]>>,
      <<[k |-> "zz", v |-> <<"1">>], [k |-> "query", v |-> <<"a", ",", "b">>],
        [k |-> "query", v |-> <<"c">>]>>,
      <<[k |-> "query", v |-> <<"%", "z", "z">>], [k |-> "query", v |-> <<"g", "o">>]>>,
      <<[k |-> "max_results", v |-> <<"1", "0">>], [k |-> "query", v |-> <<"g", "o">>]>> }

Requests ==
    {[Method |-> "GET", Path |-> "/2/tweets/search/recent", RawQuery |-> raw] :
        raw \in RawQueries}

(***************************************************************************)
(* JSON documents and encoding/json's Unmarshal.                           *)
(*                                                                         *)
(* A document is malformed text or a value: null, a string, a number, an   *)
(* array (of n elements) or an object, whose members are in text order and *)
(* may repeat a key.  A pointer is [nil, v].  A decoder returns the value  *)
(* it leaves in the target and whether Unmarshal reports an error; as in   *)
(* Go, decoding goes on past a type mismatch and the error is kept.        *)
(***************************************************************************)
JMalformed == [t |-> "malformed", n |-> 0, s |-> "", m |-> <<>>]
JNull == [t |-> "null", n |-> 0, s |-> "", m |-> <<>>]
JStr(s) == [t |-> "string", n |-> 0, s |-> s, m |-> <<>>]
JNum(n) == [t |-> "number", n |-> n, s |-> "", m |-> <<>>]
JArr(n) == [t |-> "array", n |-> n, s |-> "", m |-> <<>>]
JObj(m) == [t |-> "object", n |-> 0, s |-> "", m |-> m]
Member(k, v) == [k |-> k, v |-> v]

Ptr(v) == [nil |-> FALSE, v |-> v]
Nil(zero) == [nil |-> TRUE, v |-> zero]

\* a struct field is matched by its JSON name without regard to case
Fold(k) ==
    CASE k = "RateLimit" -> "ratelimit"
      [] k = "Raw" -> "raw"
      [] k = "META" -> "meta"
      [] k = "StatusCode" -> "statuscode"
      [] k = "Limit" -> "limit"
      [] OTHER -> k

\* a JSON value into a string field
DecodeString(cur, v) ==
    CASE v.t = "null" -> [val |-> cur, err |-> FALSE]
      [] v.t = "string" -> [val |-> v.s, err |-> FALSE]
      [] OTHER -> [val |-> cur, err |-> TRUE]

\* a JSON value into an int field
DecodeInt(cur, v) ==
    CASE v.t = "null" -> [val |-> cur, err |-> FALSE]
      [] v.t = "number" -> [val |-> v.n, err |-> FALSE]
      [] OTHER -> [val |-> cur, err |-> TRUE]

ZeroMeta == [NewestID |-> "", OldestID |-> "", ResultCount |-> 0, NextToken |-> ""]

\* one member of a JSON object into a TweetRecentSearchMeta
MetaMember(cur, mem) ==
    LET k == Fold(mem.k) IN
    CASE k = "newest_id" ->
            LET d == DecodeString(cur.NewestID, mem.v)
            IN [val |-> [cur EXCEPT !.NewestID = d.val], err |-> d.err]
      [] k = "oldest_id" ->
            LET d == DecodeString(cur.OldestID, mem.v)
            IN [val |-> [cur EXCEPT !.OldestID = d.val], err |-> d.err]
      [] k = "result_count" ->
            LET d == DecodeInt(cur.ResultCount, mem.v)
            IN [val |-> [cur EXCEPT !.ResultCount = d.val], err |-> d.err]
      [] k = "next_token" ->
            LET d == DecodeString(cur.NextToken, mem.v)
            IN [val |-> [cur EXCEPT !.NextToken = d.val], err |-> d.err]
      [] OTHER -> [val |-> cur, err |-> FALSE]

RECURSIVE MetaMembers(_, _)
MetaMembers(cur, m) ==
    IF m = <<>> THEN [val |-> cur, err |-> FALSE]
    ELSE LET first == MetaMember(cur, Head(m))
             rest == MetaMembers(first.val, Tail(m))
         IN [val |-> rest.val, err |-> first.err \/ rest.err]

\* a JSON value into the *TweetRecentSearchMeta field: null makes the pointer
\* nil, an object is decoded into the struct pointed to (allocated if nil)
DecodeMetaPtr(cur, v) ==
    CASE v.t = "null" -> [val |-> Nil(ZeroMeta), err |-> FALSE]
      [] v.t = "object" ->
            LET d == MetaMembers(cur.v, v.m) IN [val |-> Ptr(d.val), err |-> d.err]
      [] OTHER -> [val |-> Ptr(cur.v), err |-> TRUE]

ZeroRateLimit == [Limit |-> 0, Remaining |-> 0, Reset |-> 0]

\* one member of a JSON object into a RateLimit
RateLimitMember(cur, mem) ==
    LET k == Fold(mem.k) IN
    CASE k = "limit" ->
            LET d == DecodeInt(cur.Limit, mem.v)
            IN [val |-> [cur EXCEPT !.Limit = d.val], err |-> d.err]
      [] k = "remaining" ->
            LET d == DecodeInt(cur.Remaining, mem.v)
            IN [val |-> [cur EXCEPT !.Remaining = d.val], err |-> d.err]
      [] OTHER -> [val |-> cur, err |-> FALSE]

RECURSIVE RateLimitMembers(_, _)
RateLimitMembers(cur, m) ==
    IF m = <<>> THEN [val |-> cur, err |-> FALSE]
    ELSE LET first == RateLimitMember(cur, Head(m))
             rest == RateLimitMembers(first.val, Tail(m))
         IN [val |-> rest.val, err |-> first.err \/ rest.err]

\* a JSON value into the *RateLimit field
DecodeRateLimitPtr(cur, v) ==
    CASE v.t = "null" -> [val |-> Nil(ZeroRateLimit), err |-> FALSE]
      [] v.t = "object" ->
            LET d == RateLimitMembers(cur.v, v.m) IN [val |-> Ptr(d.val), err |-> d.err]
      [] OTHER -> [val |-> Ptr(cur.v), err |-> TRUE]

\* TweetRaw: the tweets of "data", a slice that is nil or has a length
ZeroRaw == [Tweets |-> [nil |-> TRUE, len |-> 0]]

\* one member of a JSON object into a TweetRaw
RawMember(cur, mem) ==
    IF Fold(mem.k) = "data"
    THEN CASE mem.v.t = "null" -> [val |-> ZeroRaw, err |-> FALSE]
           [] mem.v.t = "array" ->
                 [val |-> [Tweets |-> [nil |-> FALSE, len |-> mem.v.n]], err |-> FALSE]
           [] OTHER -> [val |-> cur, err |-> TRUE]
    ELSE [val |-> cur, err |-> FALSE]

RECURSIVE RawMembers(_, _)
RawMembers(cur, m) ==
    IF m = <<>> THEN [val |-> cur, err |-> FALSE]
    ELSE LET first == RawMember(cur, Head(m))
             rest == RawMembers(first.val, Tail(m))
         IN [val |-> rest.val, err |-> first.err \/ rest.err]

\* a JSON value into the *TweetRaw field
DecodeRawPtr(cur, v) ==
    CASE v.t = "null" -> [val |-> Nil(ZeroRaw), err |-> FALSE]
      [] v.t = "object" ->
            LET d == RawMembers(cur.v, v.m) IN [val |-> Ptr(d.val), err |-> d.err]
      [] OTHER -> [val |-> Ptr(cur.v), err |-> TRUE]

\* json.Unmarshal(buffer, recentSearch.Raw)
UnmarshalRaw(text, cur) ==
    CASE text.t = "null" -> [val |-> cur, err |-> FALSE]
      [] text.t = "object" -> RawMembers(cur, text.m)
      [] OTHER -> [val |-> cur, err |-> TRUE]

\* one member of a JSON object into a TweetRecentSearchResponse, whose fields
\* are Raw (untagged), Meta (tagged "meta") and RateLimit (untagged)
ResponseMember(cur, mem) ==
    LET k == Fold(mem.k) IN
    CASE k = "raw" ->
            LET d == DecodeRawPtr(cur.Raw, mem.v)
            IN [val |-> [cur EXCEPT !.Raw = d.val], err |-> d.err]
      [] k = "meta" ->
            LET d == DecodeMetaPtr(cur.Meta, mem.v)
            IN [val |-> [cur EXCEPT !.Meta = d.val], err |-> d.err]
      [] k = "ratelimit" ->
            LET d == DecodeRateLimitPtr(cur.RateLimit, mem.v)
            IN [val |-> [cur EXCEPT !.RateLimit = d.val], err |-> d.err]
      [] OTHER -> [val |-> cur, err |-> FALSE]

RECURSIVE ResponseMembers(_, _)
ResponseMembers(cur, m) ==
    IF m = <<>> THEN [val |-> cur, err |-> FALSE]
    ELSE LET first == ResponseMember(cur, Head(m))
             rest == ResponseMembers(first.val, Tail(m))
         IN [val |-> rest.val, err |-> first.err \/ rest.err]

\* json.Unmarshal(buffer, recentSearch)
UnmarshalResponse(text, cur) ==
    CASE text.t = "null" -> [val |-> cur, err |-> FALSE]
      [] text.t = "object" -> ResponseMembers(cur, text.m)
      [] OTHER -> [val |-> cur, err |-> TRUE]

\* the fields of ErrorResponse that come from the body
ZeroErrorBody == [StatusCode |-> 0, Title |-> ""]

\* one member of a JSON object into an ErrorResponse
ErrorMember(cur, mem) ==
    LET k == Fold(mem.k) IN
    CASE k = "statuscode" ->
            LET d == DecodeInt(cur.StatusCode, mem.v)
            IN [val |-> [cur EXCEPT !.StatusCode = d.val], err |-> d.err]
      [] k = "title" ->
            LET d == DecodeString(cur.Title, mem.v)
            IN [val |-> [cur EXCEPT !.Title = d.val], err |-> d.err]
      [] OTHER -> [val |-> cur, err |-> FALSE]

RECURSIVE ErrorMembers(_, _)
ErrorMembers(cur, m) ==
    IF m = <<>> THEN [val |-> cur, err |-> FALSE]
    ELSE LET first == ErrorMember(cur, Head(m))
             rest == ErrorMembers(first.val, Tail(m))
         IN [val |-> rest.val, err |-> first.err \/ rest.err]

\* json.Unmarshal(buffer, e) for e := &ErrorResponse{}
UnmarshalError(text, cur) ==
    CASE text.t = "null" -> [val |-> cur, err |-> FALSE]
      [] text.t = "object" -> ErrorMembers(cur, text.m)
      [] OTHER -> [val |-> cur, err |-> TRUE]

(***************************************************************************)
(* The rate-limit extractors.  Headers hold, per quota window, whether the *)
(* window's headers are present and well formed, and their numbers.        *)
(***************************************************************************)
Reading(w) ==
    Ptr(IF w.present /\ w.wellformed
        THEN [Limit |-> w.limit, Remaining |-> w.remaining, Reset |-> w.reset]
        ELSE ZeroRateLimit)

rateFromHeader(headers) == Reading(headers.rate)
dailyAppRateFromHeader(headers) == Reading(headers.app)
dailyUserRateFromHeader(headers) == Reading(headers.user)

(***************************************************************************)
(* TweetRecentSearchAsyncResponse.Build.                                   *)
(***************************************************************************)
StatusOK == 200

NilResponse ==
    Nil([Raw |-> Nil(ZeroRaw), Meta |-> Nil(ZeroMeta), RateLimit |-> Nil(ZeroRateLimit)])

\* an error value; "nil" is no error, and the fields a type lacks, or the
\* code does not set, stay zero
ErrorValue(type, statusCode, rl, darl, durl, title) ==
    [type |-> type, StatusCode |-> statusCode, RateLimit |-> rl,
     DailyAppRateLimit |-> darl, DailyUserRateLimit |-> durl, Title |-> title]

NilError ==
    ErrorValue("nil", 0, Nil(ZeroRateLimit), Nil(ZeroRateLimit), Nil(ZeroRateLimit), "")

Returned(result, err) == [done |-> TRUE, result |-> result, err |-> err]

\* the status test with every 2xx and 3xx code taken for success
IsFailureStatusFrom400(statusCode) == statusCode >= 400

\* statusCode != http.StatusOK
IsFailureStatus(statusCode) == statusCode # StatusOK

\* the error branch with the body's own status code left in place
BuildAPIErrorKeepsBodyStatus(statusCode, rl, darl, durl, buffer) ==
    LET e == UnmarshalError(buffer, ZeroErrorBody) IN
    IF e.err
    THEN Returned(NilResponse, ErrorValue("HTTPError", statusCode, rl, darl, durl, ""))
    ELSE Returned(NilResponse,
                  ErrorValue("ErrorResponse",
                             IF e.val.StatusCode # 0 THEN e.val.StatusCode ELSE statusCode,
                             rl, darl, durl, e.val.Title))

\* the branch taken when statusCode != http.StatusOK
BuildAPIError(statusCode, rl, darl, durl, buffer) ==
    LET e == UnmarshalError(buffer, ZeroErrorBody) IN
    IF e.err
    THEN Returned(NilResponse, ErrorValue("HTTPError", statusCode, rl, darl, durl, ""))
    ELSE Returned(NilResponse,
                  ErrorValue("ErrorResponse", statusCode, rl, darl, durl, e.val.Title))

DecodeError(rl) ==
    ErrorValue("ResponseDecodeError", 0, rl, Nil(ZeroRateLimit), Nil(ZeroRateLimit), "")

\* the branch taken when the status is 200: the raw pass, then the typed pass
BuildSuccess(rl, buffer) ==
    LET recentSearch == [Raw |-> Ptr(ZeroRaw), Meta |-> Ptr(ZeroMeta), RateLimit |-> rl]
        raw == UnmarshalRaw(buffer, recentSearch.Raw.v)
    IN IF raw.err THEN Returned(NilResponse, DecodeError(rl))
       ELSE LET typed == UnmarshalResponse(buffer, [recentSearch EXCEPT !.Raw = Ptr(raw.val)])
            IN IF typed.err THEN Returned(NilResponse, DecodeError(rl))
               ELSE Returned(Ptr(typed.val), NilError)

ReadError ==
    ErrorValue("read", 0, Nil(ZeroRateLimit), Nil(ZeroRateLimit), Nil(ZeroRateLimit), "")

Build(statusCode, headers, body) ==
    IF body.readErr THEN Returned(NilResponse, ReadError)
    ELSE LET rl == rateFromHeader(headers)
             darl == dailyAppRateFromHeader(headers)
             durl == dailyUserRateFromHeader(headers)
         IN IF IsFailureStatus(statusCode)
            THEN BuildAPIError(statusCode, rl, darl, durl, body.text)
            ELSE BuildSuccess(rl, body.text)

(***************************************************************************)
(* The responses the decoder is run on.                                    *)
(***************************************************************************)
Members ==
    { Member("meta", JObj(<<Member("result_count", JNum(3)), Member("next_token", JStr("n"))>>)),
      Member("meta", JNull),
      Member("META", JStr("x")),
      Member("meta", JObj(<<Member("result_count", JStr("3"))>>)),
      Member("data", JArr(2)),
      Member("data", JStr("x")),
      Member("RateLimit", JNull),
      Member("ratelimit", JObj(<<Member("Limit", JNum(7))>>)),
      Member("Raw", JNull),
      Member("raw", JObj(<<Member("data", JArr(1))>>)),
      Member("StatusCode", JNum(403)),
      Member("title", JStr("Forbidden")),
      Member("title", JNum(5)) }

Texts ==
    {JMalformed, JNull, JArr(0)}
        \cup {JObj(m) : m \in UNION {[1..n -> Members] : n \in 0..MaxMembers}}

Bodies ==
    {[readErr |-> FALSE, text |-> t] : t \in Texts}
        \cup {[readErr |-> TRUE, text |-> JMalformed]}

Window(present, wellformed, limit) ==
    [present |-> present, wellformed |-> wellformed,
     limit |-> limit, remaining |-> limit - 1, reset |-> limit + 1]

HeaderSets ==
    { [rate |-> Window(FALSE, FALSE, 0), app |-> Window(FALSE, FALSE, 0),
       user |-> Window(FALSE, FALSE, 0)],
      [rate |-> Window(TRUE, TRUE, 450), app |-> Window(TRUE, TRUE, 1000),
       user |-> Window(TRUE, TRUE, 50)],
      [rate |-> Window(TRUE, TRUE, 450), app |-> Window(FALSE, FALSE, 0),
       user |-> Window(TRUE, FALSE, 50)] }

StatusCodes == {200, 201, 429, 500}

(***************************************************************************)
(* The stream-rule validators.  validate returns its error and, for the    *)
(* batches, how many elements the loop called validate on before returning.*)
(***************************************************************************)
NilErr == [nil |-> TRUE, msg |-> "", wraps |-> ""]

\* fmt.Errorf("...: %w", ErrParameter)
ParameterError(msg) == [nil |-> FALSE, msg |-> msg, wraps |-> "ErrParameter"]

\* TweetSearchStreamRule.validate
RuleValidate(t) ==
    IF t.Value = "" THEN ParameterError("tweet search stream rule value is required")
    ELSE NilErr

\* TweetSearchStreamRuleID.validate
RuleIDValidate(t) ==
    IF t = "" THEN ParameterError("tweet search rule id is required")
    ELSE NilErr

RECURSIVE RulesScanAll(_, _)
\* the loop run to the end of the batch, its first error kept for the return
RulesScanAll(t, i) ==
    IF i > Len(t) THEN [err |-> NilErr, examined |-> Len(t)]
    ELSE LET rest == RulesScanAll(t, i + 1)
         IN IF RuleValidate(t[i]).nil THEN rest
            ELSE [err |-> RuleValidate(t[i]), examined |-> Len(t)]

RECURSIVE RulesScan(_, _)
\* the loop of tweetSearchStreamRules.validate from element i on
RulesScan(t, i) ==
    IF i > Len(t) THEN [err |-> NilErr, examined |-> Len(t)]
    ELSE IF ~RuleValidate(t[i]).nil THEN [err |-> RuleValidate(t[i]), examined |-> i]
    ELSE RulesScan(t, i + 1)

\* tweetSearchStreamRules.validate
RulesValidate(t) == RulesScan(t, 1)

RECURSIVE RuleIDsScan(_, _)
\* the loop of tweetSearchStreamRuleIDs.validate from element i on
RuleIDsScan(t, i) ==
    IF i > Len(t) THEN [err |-> NilErr, examined |-> Len(t)]
    ELSE IF ~RuleIDValidate(t[i]).nil THEN [err |-> RuleIDValidate(t[i]), examined |-> i]
    ELSE RuleIDsScan(t, i + 1)

\* tweetSearchStreamRuleIDs.validate
RuleIDsValidate(t) == RuleIDsScan(t, 1)

\* tweetSearchStreamRuleIDs.toStringArray
toStringArray(t) == [i \in 1..Len(t) |-> t[i]]

StreamRules == [Value : {"", "cat"}, Tag : {"", "t"}]
StreamRuleIDs == {"", "1", "2"}
RuleBatches == UNION {[1..n -> StreamRules] : n \in 0..MaxBatch}
RuleIDBatches == UNION {[1..n -> StreamRuleIDs] : n \in 0..MaxBatch}

(***************************************************************************)
(* The encoder as a state machine: an options value and a request are      *)
(* given, and addQuery is applied to the request, at most twice.           *)
(***************************************************************************)
IdleInput == [statusCode |-> 0, headers |-> <<>>, body |-> <<>>]
IdleOut == [done |-> FALSE, result |-> NilResponse, err |-> NilError]
IdleVout == [done |-> FALSE, err |-> NilErr, examined |-> 0, wire |-> <<>>]

QueryIdle ==
    /\ otype = "none" /\ opts = ZeroOpts /\ pc = "idle"
    /\ req0 = [Method |-> "", Path |-> "", RawQuery |-> <<>>] /\ req1 = req0 /\ req = req0
BuildIdle == input = IdleInput /\ out = IdleOut
ValidateIdle == vkind = "none" /\ rules = <<>> /\ ids = <<>> /\ vout = IdleVout

InitQuery ==
    /\ \/ otype \in {"recent", "search"} /\ opts \in OptsOf(Fields)
       \/ otype = "user" /\ opts \in OptsOf(UserLookupFieldNames)
    /\ req0 \in Requests
    /\ req1 = req0
    /\ req = req0
    /\ pc = "fresh"
    /\ BuildIdle /\ ValidateIdle

NextPc == IF pc = "fresh" THEN "once" ELSE "twice"

\* a call of TweetRecentSearchOpts.addQuery(req)
AddQueryRecent ==
    /\ otype = "recent" /\ pc \in {"fresh", "once"}
    /\ req' = RecentAddQuery(opts, req)
    /\ req1' = IF pc = "fresh" THEN req' ELSE req1
    /\ pc' = NextPc
    /\ UNCHANGED <<otype, opts, req0, bvars, vvars>>

\* a call of TweetSearchOpts.addQuery(req)
AddQuerySearch ==
    /\ otype = "search" /\ pc \in {"fresh", "once"}
    /\ req' = SearchAddQuery(opts, req)
    /\ req1' = IF pc = "fresh" THEN req' ELSE req1
    /\ pc' = NextPc
    /\ UNCHANGED <<otype, opts, req0, bvars, vvars>>

\* a call of UserLookupOpts.addQuery(req)
AddQueryUserLookup ==
    /\ otype = "user" /\ pc \in {"fresh", "once"}
    /\ req' = UserLookupAddQuery(opts, req)
    /\ req1' = IF pc = "fresh" THEN req' ELSE req1
    /\ pc' = NextPc
    /\ UNCHANGED <<otype, opts, req0, bvars, vvars>>

NextQuery == AddQueryRecent \/ AddQuerySearch \/ AddQueryUserLookup

SpecQuery == InitQuery /\ [][NextQuery]_vars

(***************************************************************************)
(* The decoder as a state machine: a response arrives and Build is called. *)
(***************************************************************************)
InitBuild ==
    /\ input \in [statusCode : StatusCodes, headers : HeaderSets, body : Bodies]
    /\ out = IdleOut
    /\ QueryIdle /\ ValidateIdle

\* a call of Build(statusCode, headers, body)
CallBuild ==
    /\ ~out.done
    /\ out' = Build(input.statusCode, input.headers, input.body)
    /\ UNCHANGED <<input, qvars, vvars>>

NextBuild == CallBuild

SpecBuild == InitBuild /\ [][NextBuild]_vars


(***************************************************************************)
(* The validators as a state machine: a batch is given and validated.      *)
(***************************************************************************)
InitValidate ==
    /\ \/ vkind = "rules" /\ rules \in RuleBatches /\ ids = <<>>
       \/ vkind = "ids" /\ ids \in RuleIDBatches /\ rules = <<>>
    /\ vout = IdleVout
    /\ QueryIdle /\ BuildIdle

\* a call of tweetSearchStreamRules.validate
ValidateRules ==
    /\ vkind = "rules" /\ ~vout.done
    /\ LET r == RulesValidate(rules)
       IN vout' = [done |-> TRUE, err |-> r.err, examined |-> r.examined, wire |-> <<>>]
    /\ UNCHANGED <<vkind, rules, ids, qvars, bvars>>

\* a call of tweetSearchStreamRuleIDs.validate and, when it passes, of
\* toStringArray for the request body
ValidateRuleIDs ==
    /\ vkind = "ids" /\ ~vout.done
    /\ LET r == RuleIDsValidate(ids)
       IN vout' = [done |-> TRUE, err |-> r.err, examined |-> r.examined,
                   wire |-> IF r.err.nil THEN toStringArray(ids) ELSE <<>>]
    /\ UNCHANGED <<vkind, rules, ids, qvars, bvars>>

NextValidate == ValidateRules \/ ValidateRuleIDs

SpecValidate == InitValidate /\ [][NextValidate]_vars

(***************************************************************************)
(* Properties of the decoder.                                              *)
(***************************************************************************)
Succeeded == out.done /\ out.err.type = "nil"

FreshResponse ==
    [Raw |-> Ptr(ZeroRaw), Meta |-> Ptr(ZeroMeta), RateLimit |-> Ptr(ZeroRateLimit)]

RawPassFails(text) == UnmarshalRaw(text, ZeroRaw).err
TypedPassFails(text) == UnmarshalResponse(text, FreshResponse).err

\* C2: Build returns exactly one of a result and an error, and which one is
\* fixed by the checks in this order: a failed body read gives the read error;
\* else a status other than 200 gives an ErrorResponse or HTTPError; else a body
\* failing the raw or the typed pass gives a ResponseDecodeError; else a result.
C2_OutcomeFollowsCheckOrder ==
    out.done =>
        /\ out.result.nil <=> out.err.type # "nil"
        /\ out.err.type \in
              IF input.body.readErr THEN {"read"}
              ELSE IF input.statusCode # 200 THEN {"ErrorResponse", "HTTPError"}
              ELSE IF RawPassFails(input.body.text) \/ TypedPassFails(input.body.text)
                   THEN {"ResponseDecodeError"}
              ELSE {"nil"}

C2_Witness ==
    /\ out.done /\ input.statusCode = 200 /\ ~input.body.readErr
    /\ ~RawPassFails(input.body.text) /\ TypedPassFails(input.body.text)
    /\ out.err.type = "ResponseDecodeError" /\ out.result.nil

\* C3: with a readable body and a status other than 200, the result is nil and
\* the error is an ErrorResponse when the body parses as the error envelope and
\* an HTTPError with no body field when it does not; either carries the status
\* code passed to Build and the three readings taken from the headers.
C3_APIErrorCarriesStatusAndReadings ==
    (out.done /\ ~input.body.readErr /\ input.statusCode # 200) =>
        /\ out.result.nil
        /\ out.err.StatusCode = input.statusCode
        /\ out.err.RateLimit = rateFromHeader(input.headers)
        /\ out.err.DailyAppRateLimit = dailyAppRateFromHeader(input.headers)
        /\ out.err.DailyUserRateLimit = dailyUserRateFromHeader(input.headers)
        /\ IF UnmarshalError(input.body.text, ZeroErrorBody).err
           THEN out.err.type = "HTTPError" /\ out.err.Title = ""
           ELSE out.err.type = "ErrorResponse"

C3_Witness ==
    /\ out.done /\ input.statusCode = 429 /\ ~input.body.readErr
    /\ ~UnmarshalError(input.body.text, ZeroErrorBody).err
    /\ UnmarshalError(input.body.text, ZeroErrorBody).val.StatusCode = 403
    /\ out.err.type = "ErrorResponse" /\ out.err.StatusCode = 429
    /\ out.err.RateLimit.v.Limit = 450 /\ out.err.DailyAppRateLimit.v.Limit = 1000

\* the reading an outcome carries for a quota window: a result has the one
\* RateLimit field, an error its three fields
Carried(o, window) ==
    IF o.err.type = "nil"
    THEN IF window = "rate" THEN o.result.v.RateLimit ELSE Nil(ZeroRateLimit)
    ELSE CASE window = "rate" -> o.err.RateLimit
           [] window = "app" -> o.err.DailyAppRateLimit
           [] window = "user" -> o.err.DailyUserRateLimit

\* C4: once the body was read, the outcome Build returns, whatever its kind,
\* carries the readings of all three quota windows taken from the headers.
C4_OutcomeCarriesAllThreeReadings ==
    (out.done /\ ~input.body.readErr) =>
        /\ Carried(out, "rate") = rateFromHeader(input.headers)
        /\ Carried(out, "app") = dailyAppRateFromHeader(input.headers)
        /\ Carried(out, "user") = dailyUserRateFromHeader(input.headers)

\* C5: the RateLimit of a successful result is what the extractor read from the
\* headers, whatever the body contains.
C5_RateLimitFromHeadersOnly ==
    Succeeded => out.result.v.RateLimit = rateFromHeader(input.headers)

\* C10: a successful result has non-nil Raw, Meta and RateLimit.
C10_SuccessHasNoNilPart ==
    Succeeded =>
        /\ ~out.result.v.Raw.nil
        /\ ~out.result.v.Meta.nil
        /\ ~out.result.v.RateLimit.nil

(***************************************************************************)
(* Properties of the validators.                                           *)
(***************************************************************************)
\* the positions of the batch under validation that hold an empty element
EmptyAt ==
    IF vkind = "rules" THEN {i \in 1..Len(rules) : rules[i].Value = ""}
    ELSE {i \in 1..Len(ids) : ids[i] = ""}

BatchLen == IF vkind = "rules" THEN Len(rules) ELSE Len(ids)

\* C6: validate on a batch returns nil exactly when no element is empty;
\* otherwise it returns one error wrapping ErrParameter, raised at the first
\* empty element in the caller's order, with no later element examined.
C6_FirstEmptyElementFails ==
    vout.done =>
        IF EmptyAt = {}
        THEN vout.err.nil /\ vout.examined = BatchLen
        ELSE /\ ~vout.err.nil /\ vout.err.wraps = "ErrParameter"
             /\ vout.examined \in EmptyAt
             /\ \A i \in EmptyAt : vout.examined <= i

C6_Witness ==
    /\ vout.done /\ vkind = "rules" /\ Len(rules) = 3
    /\ rules[1].Value = "cat" /\ rules[2].Value = "" /\ rules[3].Value = ""
    /\ ~vout.err.nil /\ vout.examined = 2

(***************************************************************************)
(* Properties of the encoder.                                              *)
(***************************************************************************)
DocKeys ==
    {"expansions", "media.fields", "place.fields", "poll.fields", "tweet.fields",
     "user.fields", "start_time", "end_time", "max_results", "next_token",
     "since_id", "until_id", "sort_order"}

\* how many "key=value" pairs of the raw query carry key k
CountKey(raw, k) == Cardinality({i \in 1..Len(raw) : raw[i].k = k})

NoDocKeys(r) == \A i \in 1..Len(r.RawQuery) : r.RawQuery[i].k \notin DocKeys

\* per documented key, whether the option field behind it counts as zero
ZeroByKey(o) ==
    ("expansions" :> (o.Expansions = <<>>)) @@ ("media.fields" :> (o.MediaFields = <<>>))
    @@ ("place.fields" :> (o.PlaceFields = <<>>)) @@ ("poll.fields" :> (o.PollFields = <<>>))
    @@ ("tweet.fields" :> (o.TweetFields = <<>>)) @@ ("user.fields" :> (o.UserFields = <<>>))
    @@ ("start_time" :> (o.StartTime = 0)) @@ ("end_time" :> (o.EndTime = 0))
    @@ ("max_results" :> (o.MaxResults <= 0)) @@ ("next_token" :> (o.NextToken = <<>>))
    @@ ("since_id" :> (o.SinceID = <<>>)) @@ ("until_id" :> (o.UntilID = <<>>))
    @@ ("sort_order" :> (o.SortOrder = <<>>))

AllZero(o) == \A k \in DocKeys : ZeroByKey(o)[k]

\* the values the request's query holds under key k, in order
ValuesOf(r, k) ==
    LET q == ParseQuery(r.RawQuery) IN IF k \in DOMAIN q THEN q[k] ELSE <<>>

RECURSIVE SplitComma(_)
SplitComma(s) ==
    IF \A i \in 1..Len(s) : s[i] # ","
    THEN <<s>>
    ELSE LET i == CHOOSE j \in 1..Len(s) : s[j] = "," /\ \A h \in 1..(j - 1) : s[h] # ","
         IN <<SubSeq(s, 1, i - 1)>> \o SplitComma(SubSeq(s, i + 1, Len(s)))

IsPrefix(a, b) == Len(a) <= Len(b) /\ SubSeq(b, 1, Len(a)) = a

CollectionKeys ==
    ("expansions" :> "Expansions") @@ ("media.fields" :> "MediaFields")
    @@ ("place.fields" :> "PlaceFields") @@ ("poll.fields" :> "PollFields")
    @@ ("tweet.fields" :> "TweetFields") @@ ("user.fields" :> "UserFields")

\* C1: after one addQuery of a TweetRecentSearchOpts or TweetSearchOpts value on
\* a request whose query held none of the 13 documented keys, each documented
\* key occurs in the query once if its option field is non-zero and not at all
\* if it is zero (empty list, empty string, zero time, MaxResults <= 0).
C1_KeyPresentIffFieldNonZero ==
    (otype \in {"recent", "search"} /\ pc = "once" /\ NoDocKeys(req0))
        => \A k \in DocKeys :
              CountKey(req.RawQuery, k) = IF ZeroByKey(opts)[k] THEN 0 ELSE 1

C1_Witness ==
    /\ otype = "search" /\ pc = "once" /\ NoDocKeys(req0) /\ req0.RawQuery # <<>>
    /\ opts.MaxResults = -1 /\ opts.SinceID = <<"1", "0", "0">>
    /\ CountKey(req.RawQuery, "max_results") = 0
    /\ CountKey(req.RawQuery, "since_id") = 1

\* C7 as claimed: a second addQuery with the same options leaves the request's
\* query string exactly as the first application left it.
C7_SecondApplicationChangesNothing ==
    pc = "twice" => req.RawQuery = req1.RawQuery

\* C7 as amended: a second addQuery with the same options appends, under the key
\* of every non-zero option field, a second copy of the value the first
\* application stored there and leaves every other key's values as they were;
\* the query string is unchanged exactly when every option field is zero.
C7_SecondApplicationAppendsACopy ==
    pc = "twice" =>
        /\ \A i \in 1..Len(KeyOrder) :
              LET k == KeyOrder[i]
                  before == ValuesOf(req1, k)
              IN ValuesOf(req, k) =
                    IF k \in DocKeys /\ ~ZeroByKey(opts)[k]
                    THEN Append(before, before[Len(before)])
                    ELSE before
        /\ (req.RawQuery = req1.RawQuery) <=> AllZero(opts)

C7_Witness ==
    /\ pc = "twice" /\ opts.Expansions = <<ElemId, ElemAt>>
    /\ Len(ValuesOf(req1, "expansions")) = 1
    /\ Len(ValuesOf(req, "expansions")) = 2
    /\ req.RawQuery # req1.RawQuery

\* C8: the value addQuery stores under a collection field's key is the field's
\* elements, all of them and no others, in the caller's order, separated by
\* commas.
C8_ListJoinedInCallerOrder ==
    pc = "once" =>
        \A k \in DOMAIN CollectionKeys :
            LET list == opts[CollectionKeys[k]]
                vals == ValuesOf(req, k)
            IN Len(list) >= 1 =>
                  /\ Len(vals) = Len(ValuesOf(req0, k)) + 1
                  /\ SplitComma(vals[Len(vals)]) = list

C8_Witness ==
    /\ pc = "once" /\ opts.Expansions = <<ElemId, ElemAt>>
    /\ opts.PollFields = <<ElemId, ElemId>>
    /\ ValuesOf(req, "expansions") = <<ElemId \o Comma \o ElemAt>>
    /\ ValuesOf(req, "poll.fields") = <<ElemId \o Comma \o ElemId>>

\* C9: addQuery leaves the request's method and path alone and keeps every
\* query parameter the request carried: each key the query held keeps all its
\* values, in order, ahead of anything added; with all option fields zero and
\* no query, the query stays empty.
C9_ExistingParametersKept ==
    pc \in {"once", "twice"} =>
        /\ req.Method = req0.Method /\ req.Path = req0.Path
        /\ \A i \in 1..Len(KeyOrder) :
              IsPrefix(ValuesOf(req0, KeyOrder[i]), ValuesOf(req, KeyOrder[i]))
        /\ (AllZero(opts) /\ req0.RawQuery = <<>>) => req.RawQuery = <<>>

C9_Witness ==
    /\ pc = "once" /\ opts.MaxResults = 50 /\ opts.Expansions = <<ElemAt>>
    /\ ValuesOf(req0, "max_results") = <<<<"1", "0">>>>
    /\ ValuesOf(req, "max_results") = <<<<"1", "0">>, <<"5", "0">>>>
    /\ ValuesOf(req, "query") = <<<<"g", "o">>>>

====
